---- MODULE Spec2Model ----
(***************************************************************************)
(* Model of the type layer of the PCA9685 driver (src/src/types.rs):       *)
(* the slave-address computation SlaveAddr::addr, the Channel enumeration, *)
(* the Error enumeration and the Pca9685 device structure.                 *)
(***************************************************************************)
EXTENDS Integers, Naturals, Sequences, FiniteSets, TLC

VARIABLES
    addr_pc,        \* position of the caller of SlaveAddr::addr: "idle" | "done"
    addr_self,      \* the SlaveAddr value addr is called on
    addr_default,   \* the `default: u8` argument of addr
    addr_ret,       \* the u8 returned by addr
    via_default,    \* TRUE when addr_self was produced by SlaveAddr::default()
    dev,            \* <<>> or <<handle>>: the Pca9685 value built so far
    ch_pc,          \* position of the caller comparing two channels
    ch_a, ch_b,     \* two Channel values
    ch_eq,          \* result of the derived PartialEq on ch_a, ch_b
    err_val,        \* the most recently constructed Error<E> value
    err_src,        \* the E it was constructed from (NoE for InvalidInputData)
    err_prev,       \* the Error<E> value constructed before it
    err_prev_src    \* the E that one was constructed from

vars == <<addr_pc, addr_self, addr_default, addr_ret, via_default, dev,
          ch_pc, ch_a, ch_b, ch_eq, err_val, err_src, err_prev, err_prev_src>>

addr_vars == <<addr_pc, addr_self, addr_default, addr_ret, via_default>>
dev_vars  == <<dev>>
ch_vars   == <<ch_pc, ch_a, ch_b, ch_eq>>
err_vars  == <<err_val, err_src, err_prev, err_prev_src>>

(***************************************************************************)
(* Bounds of the model.                                                    *)
(***************************************************************************)
\* transport error values E are 0..MaxE
MaxE == 9
\* transport instances I2C are 0..MaxI2C
MaxI2C == 1

(***************************************************************************)
(* u8 arithmetic.                                                          *)
(***************************************************************************)
\* number of bits of u8
U8Bits == 8

U8Mod == 2 ^ U8Bits

U8 == 0 .. (U8Mod - 1)

\* `b as u8` for a bool
AsU8(b) == IF b THEN 1 ELSE 0

\* `x << k` on u8: bits shifted past bit 7 are lost
Shl(x, k) == (x * (2 ^ k)) % U8Mod

RECURSIVE BitOrN(_, _, _)
BitOrN(x, y, n) ==
    IF n = 0 THEN 0
    ELSE (IF (x % 2 = 1) \/ (y % 2 = 1) THEN 1 ELSE 0)
         + 2 * BitOrN(x \div 2, y \div 2, n - 1)

\* `x | y` on u8
BitOr(x, y) == BitOrN(x, y, U8Bits)

\* bit i of n
Bit(n, i) == (n \div (2 ^ i)) % 2

(***************************************************************************)
(* SlaveAddr                                                               *)
(***************************************************************************)
SlaveAddr_Default == <<"Default">>

Alternative(a5, a4, a3, a2, a1, a0) == <<"Alternative", a5, a4, a3, a2, a1, a0>>

SlaveAddr ==
    {SlaveAddr_Default} \cup
    {Alternative(a5, a4, a3, a2, a1, a0) :
        a5 \in BOOLEAN, a4 \in BOOLEAN, a3 \in BOOLEAN,
        a2 \in BOOLEAN, a1 \in BOOLEAN, a0 \in BOOLEAN}

\* impl Default for SlaveAddr
SlaveAddr_default == SlaveAddr_Default

\* the family's fixed base address
DEVICE_BASE_ADDRESS == 64

\* a plausible slip: A5 shifted to bit 6
addr_mutShift(self, default) ==
    IF self[1] = "Default" THEN default
    ELSE BitOr(BitOr(BitOr(BitOr(BitOr(BitOr(default,
            Shl(AsU8(self[2]), 6)),
            Shl(AsU8(self[3]), 4)),
            Shl(AsU8(self[4]), 3)),
            Shl(AsU8(self[5]), 2)),
            Shl(AsU8(self[6]), 1)),
            AsU8(self[7]))

\* a plausible slip: A5 shifted to bit 7
addr_mutWide(self, default) ==
    IF self[1] = "Default" THEN default
    ELSE BitOr(BitOr(BitOr(BitOr(BitOr(BitOr(default,
            Shl(AsU8(self[2]), 7)),
            Shl(AsU8(self[3]), 4)),
            Shl(AsU8(self[4]), 3)),
            Shl(AsU8(self[5]), 2)),
            Shl(AsU8(self[6]), 1)),
            AsU8(self[7]))

\* a plausible slip: the Default arm ignores its argument
addr_mutConst(self, default) ==
    IF self[1] = "Default" THEN DEVICE_BASE_ADDRESS
    ELSE BitOr(BitOr(BitOr(BitOr(BitOr(BitOr(default,
            Shl(AsU8(self[2]), 5)),
            Shl(AsU8(self[3]), 4)),
            Shl(AsU8(self[4]), 3)),
            Shl(AsU8(self[5]), 2)),
            Shl(AsU8(self[6]), 1)),
            AsU8(self[7]))

\* a plausible slip: the straps replace the low six bits of the base
addr_mutMask(self, default) ==
    IF self[1] = "Default" THEN default
    ELSE BitOr(BitOr(BitOr(BitOr(BitOr(BitOr(default - (default % 64),
            Shl(AsU8(self[2]), 5)),
            Shl(AsU8(self[3]), 4)),
            Shl(AsU8(self[4]), 3)),
            Shl(AsU8(self[5]), 2)),
            Shl(AsU8(self[6]), 1)),
            AsU8(self[7]))

\* SlaveAddr::addr(self, default: u8) -> u8
addr(self, default) ==
    IF self[1] = "Default" THEN default
    ELSE BitOr(BitOr(BitOr(BitOr(BitOr(BitOr(default,
            Shl(AsU8(self[2]), 5)),
            Shl(AsU8(self[3]), 4)),
            Shl(AsU8(self[4]), 3)),
            Shl(AsU8(self[5]), 2)),
            Shl(AsU8(self[6]), 1)),
            AsU8(self[7]))

(***************************************************************************)
(* Callers of SlaveAddr::default and SlaveAddr::addr                       *)
(***************************************************************************)
AddrIdle ==
    /\ addr_pc = "idle"
    /\ addr_self = SlaveAddr_Default
    /\ addr_default = 0
    /\ addr_ret = 0
    /\ via_default = FALSE

InitAddr ==
    /\ addr_pc = "idle"
    /\ addr_self \in SlaveAddr
    /\ addr_default \in U8
    /\ addr_ret = 0
    /\ via_default = FALSE

\* let addr = SlaveAddr::default();
CallDefault ==
    /\ addr_pc = "idle"
    /\ ~via_default
    /\ addr_self' = SlaveAddr_default
    /\ via_default' = TRUE
    /\ UNCHANGED <<addr_pc, addr_default, addr_ret>>

\* addr.addr(default)
CallAddr ==
    /\ addr_pc = "idle"
    /\ addr_ret' = addr(addr_self, addr_default)
    /\ addr_pc' = "done"
    /\ UNCHANGED <<addr_self, addr_default, via_default>>

(***************************************************************************)
(* Channel                                                                 *)
(***************************************************************************)
\* the variants of Channel in declaration order
Channel_decl ==
    <<"C0", "C1", "C2", "C3", "C4", "C5", "C6", "C7",
      "C8", "C9", "C10", "C11", "C12", "C13", "C14", "C15", "All">>

Channel == {Channel_decl[i] : i \in 1 .. Len(Channel_decl)}

\* a plausible slip: All shares the ordinal of the last individual channel
discriminant_mutAll(c) ==
    IF c = "All" THEN 15
    ELSE (CHOOSE i \in 1 .. Len(Channel_decl) : Channel_decl[i] = c) - 1

\* the discriminant of a fieldless enum variant: its position in the
\* declaration, counted from 0
discriminant(c) ==
    (CHOOSE i \in 1 .. Len(Channel_decl) : Channel_decl[i] = c) - 1

\* #[derive(PartialEq)] on a fieldless enum compares discriminants
Channel_eq(a, b) == discriminant(a) = discriminant(b)

ChIdle ==
    /\ ch_pc = "idle"
    /\ ch_a = "C0"
    /\ ch_b = "C0"
    /\ ch_eq = FALSE

InitChannel ==
    /\ ch_pc = "idle"
    /\ ch_a \in Channel
    /\ ch_b \in Channel
    /\ ch_eq = FALSE

\* ch_a == ch_b
CompareChannels ==
    /\ ch_pc = "idle"
    /\ ch_eq' = Channel_eq(ch_a, ch_b)
    /\ ch_pc' = "done"
    /\ UNCHANGED <<ch_a, ch_b>>

(***************************************************************************)
(* Error<E>                                                                *)
(***************************************************************************)
E == 0 .. MaxE

\* no E at all
NoE == -1

\* no Error value constructed yet
NoError == <<>>

\* a plausible slip: the wrapped error is dropped
Error_I2C_mutDrop(e) == <<"I2C", 0>>

\* Error::I2C(e)
Error_I2C(e) == <<"I2C", e>>

\* Error::InvalidInputData
Error_InvalidInputData == <<"InvalidInputData">>

ErrIdle ==
    /\ err_val = NoError
    /\ err_src = NoE
    /\ err_prev = NoError
    /\ err_prev_src = NoE

InitError == ErrIdle

\* Error::I2C(e) for a caller-supplied e
MakeI2C ==
    \E e \in E :
        /\ err_val' = Error_I2C(e)
        /\ err_src' = e
        /\ err_prev' = err_val
        /\ err_prev_src' = err_src

\* Error::InvalidInputData
MakeInvalidInputData ==
    /\ err_val' = Error_InvalidInputData
    /\ err_src' = NoE
    /\ err_prev' = err_val
    /\ err_prev_src' = err_src

(***************************************************************************)
(* Pca9685<I2C>                                                            *)
(***************************************************************************)
I2C == 0 .. MaxI2C

\* I2C::default() of a transport type that implements Default
I2C_default == 0

\* Config::default()
Config_default == "Config::default"

\* u8::default()
u8_default == 0

\* the structure Pca9685 { i2c, address, config }
Pca9685(i2c, address, config) ==
    [i2c |-> i2c, address |-> address, config |-> config]

\* construction from a transport and a SlaveAddr
Pca9685_new(i2c, address) ==
    Pca9685(i2c, addr(address, DEVICE_BASE_ADDRESS), Config_default)

\* #[derive(Default)] on Pca9685: every field is its type's default
Pca9685_default == Pca9685(I2C_default, u8_default, Config_default)

DevIdle == dev = <<>>

InitDevice == DevIdle

\* Pca9685::new(i2c, address)
New ==
    \E i2c \in I2C, address \in SlaveAddr :
        /\ dev = <<>>
        /\ dev' = <<Pca9685_new(i2c, address)>>

\* Pca9685::default()
DeriveDefault ==
    /\ dev = <<>>
    /\ dev' = <<Pca9685_default>>

(***************************************************************************)
(* Specifications                                                          *)
(***************************************************************************)
NextAddr == (CallDefault \/ CallAddr) /\ UNCHANGED <<dev_vars, ch_vars, err_vars>>

Init_Addr == InitAddr /\ DevIdle /\ ChIdle /\ ErrIdle

SpecAddr == Init_Addr /\ [][NextAddr]_vars

NextChannel == CompareChannels /\ UNCHANGED <<addr_vars, dev_vars, err_vars>>

Init_Channel == AddrIdle /\ DevIdle /\ InitChannel /\ ErrIdle

SpecChannel == Init_Channel /\ [][NextChannel]_vars

NextError ==
    (MakeI2C \/ MakeInvalidInputData) /\ UNCHANGED <<addr_vars, dev_vars, ch_vars>>

Init_Error == AddrIdle /\ DevIdle /\ ChIdle /\ InitError

SpecError == Init_Error /\ [][NextError]_vars

NextDevice == (New \/ DeriveDefault) /\ UNCHANGED <<addr_vars, ch_vars, err_vars>>

Init_Device == AddrIdle /\ InitDevice /\ ChIdle /\ ErrIdle

SpecDevice == Init_Device /\ [][NextDevice]_vars

(***************************************************************************)
(* Properties                                                              *)
(***************************************************************************)
\* strap a_i of an Alternative value
Strap(self, i) == self[7 - i]

\* the value 32*a5 + 16*a4 + 8*a3 + 4*a2 + 2*a1 + a0
StrapValue(self) ==
    32 * AsU8(self[2]) + 16 * AsU8(self[3]) + 8 * AsU8(self[4])
    + 4 * AsU8(self[5]) + 2 * AsU8(self[6]) + AsU8(self[7])

AllFalse == Alternative(FALSE, FALSE, FALSE, FALSE, FALSE, FALSE)

AllTrue == Alternative(TRUE, TRUE, TRUE, TRUE, TRUE, TRUE)

Alternatives == SlaveAddr \ {SlaveAddr_Default}

AddrDoneAlt == addr_pc = "done" /\ addr_self[1] = "Alternative"

\* C1 as stated: for every base, Alternative(a5..a0).addr(base) has bit i
\* (i in 0..5) set if and only if a_i is true, and bits 6 and 7 as in base.
C1_AsStated ==
    AddrDoneAlt =>
        /\ \A i \in 0 .. 5 : (Bit(addr_ret, i) = 1) <=> Strap(addr_self, i)
        /\ \A i \in 6 .. 7 : Bit(addr_ret, i) = Bit(addr_default, i)

\* C1 amended: for every base whose bits 5..0 are all zero,
\* Alternative(a5..a0).addr(base) has bit i (i in 0..5) set if and only if
\* a_i is true, and bits 6 and 7 as in base.
C1_ExactBitsOnCleanBase ==
    (AddrDoneAlt /\ addr_default % 64 = 0) =>
        /\ \A i \in 0 .. 5 : (Bit(addr_ret, i) = 1) <=> Strap(addr_self, i)
        /\ \A i \in 6 .. 7 : Bit(addr_ret, i) = Bit(addr_default, i)

C1_Witness ==
    /\ addr_pc = "done"
    /\ addr_self = Alternative(TRUE, FALSE, TRUE, FALSE, FALSE, TRUE)
    /\ addr_default = 192
    /\ addr_ret = 233

\* C2: SlaveAddr::Default.addr(base) = base for every base in 0..255, and
\* SlaveAddr::default() is the Default variant, so it resolves to base too.
C2_DefaultIdentity ==
    /\ via_default => addr_self = <<"Default">>
    /\ (addr_pc = "done" /\ (via_default \/ addr_self[1] = "Default"))
           => addr_ret = addr_default

C2_Witness ==
    /\ addr_pc = "done"
    /\ via_default
    /\ addr_default = 200
    /\ addr_ret = 200

\* C3: Alternative(a5..a0).addr(base) is base bitwise-OR the strap value:
\* every result bit is the OR of the base bit and the strap bit at that
\* position, bits 6 and 7 are those of base, and no bit of base is cleared.
C3_BitwiseOr ==
    AddrDoneAlt =>
        /\ \A i \in 0 .. 7 :
               (Bit(addr_ret, i) = 1) <=>
                   (Bit(addr_default, i) = 1 \/ Bit(StrapValue(addr_self), i) = 1)
        /\ \A i \in 6 .. 7 : Bit(addr_ret, i) = Bit(addr_default, i)
        /\ \A i \in 0 .. 7 : Bit(addr_default, i) = 1 => Bit(addr_ret, i) = 1
        /\ addr_ret \in U8

C3_Witness ==
    /\ addr_pc = "done"
    /\ addr_self = Alternative(FALSE, TRUE, FALSE, FALSE, TRUE, TRUE)
    /\ addr_default = 133
    /\ addr_ret = 151

\* C4 as stated: every Pca9685 value holds an address that the resolver
\* yields for the fixed base address and some SlaveAddr, together with a
\* default configuration.
C4_AsStated ==
    dev # <<>> =>
        /\ dev[1].address \in {addr(m, DEVICE_BASE_ADDRESS) : m \in SlaveAddr}
        /\ dev[1].config = Config_default

\* C5: for every base in 0..127 and every SlaveAddr the result lies in
\* 0..127, and no shift of a strap loses a bit of the 8-bit type.
C5_SevenBit ==
    (addr_pc = "done" /\ addr_default \in 0 .. 127) =>
        /\ addr_ret \in 0 .. 127
        /\ addr_self[1] = "Alternative" =>
               \A i \in 0 .. 5 :
                   /\ AsU8(Strap(addr_self, i)) * (2 ^ i) < U8Mod
                   /\ Shl(AsU8(Strap(addr_self, i)), i)
                          = AsU8(Strap(addr_self, i)) * (2 ^ i)
                   /\ Bit(addr_ret, i) >= AsU8(Strap(addr_self, i))

C5_Witness ==
    /\ addr_pc = "done"
    /\ addr_self = AllTrue
    /\ addr_default = 127
    /\ addr_ret = 127

\* C7: Channel has exactly 17 pairwise-distinct variants, C0..C15 with
\* ordinals 0..15 in declaration order and All, whose ordinal is none of
\* 0..15; two channels compare equal only when they are the same variant.
IndividualChannels ==
    <<"C0", "C1", "C2", "C3", "C4", "C5", "C6", "C7",
      "C8", "C9", "C10", "C11", "C12", "C13", "C14", "C15">>

C7_ChannelVariants ==
    /\ Len(Channel_decl) = 17
    /\ Cardinality(Channel) = 17
    /\ Channel = {IndividualChannels[i] : i \in 1 .. 16} \cup {"All"}
    /\ \A i \in 0 .. 15 : discriminant(IndividualChannels[i + 1]) = i
    /\ discriminant("All") \notin 0 .. 15
    /\ \A c \in Channel \ {"All"} : discriminant(c) # discriminant("All")
    /\ ch_pc = "done" => (ch_eq <=> ch_a = ch_b)

C7_Witness ==
    /\ ch_pc = "done"
    /\ ch_a = "All"
    /\ ch_b = "C15"
    /\ ch_eq = FALSE

\* C8: Error has two kinds; I2C(e) can be built for any e and carries e
\* verbatim, InvalidInputData can be built, no I2C(e) equals
\* InvalidInputData, and I2C(e1) = I2C(e2) only when e1 = e2.
C8_ErrorKinds ==
    /\ err_src # NoE => (err_val[1] = "I2C" /\ err_val[2] = err_src)
    /\ (err_val # NoError /\ err_src = NoE) => err_val[1] = "InvalidInputData"
    /\ (err_src # NoE /\ err_prev # NoError /\ err_prev_src = NoE)
           => err_val # err_prev
    /\ (err_prev_src # NoE /\ err_val # NoError /\ err_src = NoE)
           => err_val # err_prev
    /\ (err_src # NoE /\ err_prev_src # NoE)
           => (err_val = err_prev <=> err_src = err_prev_src)

C8_Witness ==
    /\ err_src = 7
    /\ err_val = <<"I2C", 7>>
    /\ err_prev_src = 3
    /\ err_prev = <<"I2C", 3>>

\* C9: for every base in 0..255, Alternative with all straps false returns
\* base, as Default does, and Alternative with all straps true returns
\* base | 0b0011_1111; for base 0b100_0000 these are 0b100_0000 and
\* 0b111_1111.
C9_EdgeCases ==
    /\ (addr_pc = "done" /\ addr_self = AllFalse) =>
           /\ addr_ret = addr_default
           /\ addr_ret = addr(SlaveAddr_Default, addr_default)
           /\ addr_default = 64 => addr_ret = 64
    /\ (addr_pc = "done" /\ addr_self = AllTrue) =>
           /\ addr_ret = addr_default - (addr_default % 64) + 63
           /\ addr_default = 64 => addr_ret = 127

C9_Witness ==
    /\ addr_pc = "done"
    /\ addr_self = AllTrue
    /\ addr_default = 133
    /\ addr_ret = 191

\* C10: for a base whose bits 5..0 are zero, two Alternative values that
\* differ in a strap resolve to different addresses, the 64 of them yield
\* exactly base..base+63, and a single true strap a_i yields base + 2^i.
C10_Injective ==
    (AddrDoneAlt /\ addr_default % 64 = 0) =>
        /\ \A m \in Alternatives :
               m # addr_self => addr(m, addr_default) # addr_ret
        /\ {addr(m, addr_default) : m \in Alternatives}
               = addr_default .. (addr_default + 63)
        /\ \A i \in 0 .. 5 :
               (/\ Strap(addr_self, i)
                /\ \A j \in 0 .. 5 : j # i => ~Strap(addr_self, j))
                   => addr_ret = addr_default + 2 ^ i

C10_Witness ==
    /\ addr_pc = "done"
    /\ addr_self = Alternative(FALSE, FALSE, TRUE, FALSE, FALSE, FALSE)
    /\ addr_default = DEVICE_BASE_ADDRESS
    /\ addr_ret = 72

====
